---- MODULE Spec2Model ----
(***************************************************************************)
(* Model of the booking state machine built by ProcessBookingConstruct     *)
(* (src/unnamed/part_000) and started by the processBooking resolver       *)
(* (src/cdk/lib/payment/payment.ts).                                       *)
(*                                                                         *)
(* The state definitions below are transcribed from the construct: the    *)
(* task, its timeout, its resultPath, its retriers, its catcher and its    *)
(* successor.  The actions are the Amazon States Language interpretation   *)
(* of those definitions: one action is one attempt of the current task     *)
(* state together with the retry / catch / next decision that follows it.  *)
(*                                                                         *)
(* An attempt is atomic with respect to the flight table: an "ok" response *)
(* applies the update, an error response leaves the item untouched.        *)
(***************************************************************************)
EXTENDS Integers, Sequences, FiniteSets, TLC

\* ---------------------------------------------------------------- bounds
NumExecs == 2
MaxSeats == 2
SlowSeconds == 4
\* Calls that may fail or stay unanswered: in one execution (more than any
\* path has), and in all of the concurrent executions together.
MaxFaults == 16
MaxFaultsConcurrent == 2

Execs == 1..NumExecs

\* ------------------------------------------------------- program constants
GlobalTimeout == 30

Never == GlobalTimeout + 1

\* Durations of one call of an activity: at once, slow, or no answer at all.
Durations == {0, SlowSeconds, Never}

\* ------------------------------------------------------ state definitions
\* A resultPath "$.key" is written "key"; "$" (the default when the task sets
\* none) is the whole state input.  A timeout of 0 is no timeout.
NoUpdate == [delta |-> 0, conditional |-> FALSE]

ThrottlingErrors ==
    { "ProvisionedThroughputExceededException", "RequestLimitExceeded",
      "ServiceUnavailable", "ThrottlingException" }

notifyBookingFailed ==
    [ id |-> "NotifyBookingFailed", kind |-> "lambda", update |-> NoUpdate,
      parameters |-> {},
      timeout |-> 5, resultPath |-> "notificationId",
      retry |-> << [errors |-> {"BookingNotificationException"},
                    interval |-> 1, backoffRate |-> 2, maxAttempts |-> 2] >>,
      catch |-> << >>,
      next |-> "BookingFailed" ]

\* ReleaseFlightTask followed by CancelBooking: a cycle with CancelBooking.
releaseFlightTask_NextToCancel ==
    [ id |-> "ReleaseFlightTask", kind |-> "dynamodb",
      update |-> [delta |-> -1, conditional |-> TRUE],
      parameters |-> {"flightTable", "outboundFlightId"},
      timeout |-> 5, resultPath |-> "$",
      retry |-> << [errors |-> ThrottlingErrors,
                    interval |-> 1, backoffRate |-> 2, maxAttempts |-> 2] >>,
      catch |-> << [errors |-> {"States.ALL"}, next |-> "NotifyBookingFailed",
                    resultPath |-> "flightError"] >>,
      next |-> "CancelBooking" ]

releaseFlightTask ==
    [ id |-> "ReleaseFlightTask", kind |-> "dynamodb",
      update |-> [delta |-> -1, conditional |-> TRUE],
      parameters |-> {"flightTable", "outboundFlightId"},
      timeout |-> 5, resultPath |-> "$",
      retry |-> << [errors |-> ThrottlingErrors,
                    interval |-> 1, backoffRate |-> 2, maxAttempts |-> 2] >>,
      catch |-> << [errors |-> {"States.ALL"}, next |-> "NotifyBookingFailed",
                    resultPath |-> "flightError"] >>,
      next |-> "NotifyBookingFailed" ]

cancelBooking ==
    [ id |-> "CancelBooking", kind |-> "lambda", update |-> NoUpdate,
      parameters |-> {},
      timeout |-> 0, resultPath |-> "$",
      retry |-> << [errors |-> {"BookingCancellationException"},
                    interval |-> 1, backoffRate |-> 2, maxAttempts |-> 2] >>,
      catch |-> << >>,
      next |-> "ReleaseFlightTask" ]

\* ReserveFlightTask's catcher aimed at ReleaseFlightTask.
reserveFlightTask_CatchToRelease ==
    [ id |-> "ReserveFlightTask", kind |-> "dynamodb",
      update |-> [delta |-> 1, conditional |-> FALSE],
      parameters |-> {"flightTable", "outboundFlightId"},
      timeout |-> 5, resultPath |-> "$",
      retry |-> << [errors |-> ThrottlingErrors,
                    interval |-> 1, backoffRate |-> 2, maxAttempts |-> 2],
                   [errors |-> {"ConditionalCheckFailedException"},
                    interval |-> 0, backoffRate |-> 2, maxAttempts |-> 0] >>,
      catch |-> << [errors |-> {"States.ALL"}, next |-> "ReleaseFlightTask",
                    resultPath |-> "flightError"] >>,
      next |-> "ReserveBooking" ]

\* ReserveFlightTask's catcher aimed at CancelBooking.
reserveFlightTask_CatchToCancel ==
    [ id |-> "ReserveFlightTask", kind |-> "dynamodb",
      update |-> [delta |-> 1, conditional |-> FALSE],
      parameters |-> {"flightTable", "outboundFlightId"},
      timeout |-> 5, resultPath |-> "$",
      retry |-> << [errors |-> ThrottlingErrors,
                    interval |-> 1, backoffRate |-> 2, maxAttempts |-> 2],
                   [errors |-> {"ConditionalCheckFailedException"},
                    interval |-> 0, backoffRate |-> 2, maxAttempts |-> 0] >>,
      catch |-> << [errors |-> {"States.ALL"}, next |-> "CancelBooking",
                    resultPath |-> "flightError"] >>,
      next |-> "ReserveBooking" ]

reserveFlightTask ==
    [ id |-> "ReserveFlightTask", kind |-> "dynamodb",
      update |-> [delta |-> 1, conditional |-> FALSE],
      parameters |-> {"flightTable", "outboundFlightId"},
      timeout |-> 5, resultPath |-> "$",
      retry |-> << [errors |-> ThrottlingErrors,
                    interval |-> 1, backoffRate |-> 2, maxAttempts |-> 2],
                   [errors |-> {"ConditionalCheckFailedException"},
                    interval |-> 0, backoffRate |-> 2, maxAttempts |-> 0] >>,
      catch |-> << [errors |-> {"States.ALL"}, next |-> "NotifyBookingFailed",
                    resultPath |-> "flightError"] >>,
      next |-> "ReserveBooking" ]

reserveBooking ==
    [ id |-> "ReserveBooking", kind |-> "lambda", update |-> NoUpdate,
      parameters |-> {},
      timeout |-> 5, resultPath |-> "bookingId",
      retry |-> << [errors |-> {"BookingReservationException"},
                    interval |-> 1, backoffRate |-> 2, maxAttempts |-> 2] >>,
      catch |-> << [errors |-> {"States.ALL"}, next |-> "CancelBooking",
                    resultPath |-> "bookingError"] >>,
      next |-> "CollectPayment" ]

collectPayment ==
    [ id |-> "CollectPayment", kind |-> "lambda", update |-> NoUpdate,
      parameters |-> {},
      timeout |-> 0, resultPath |-> "$",
      retry |-> << >>,
      catch |-> << [errors |-> {"States.ALL"}, next |-> "CancelBooking",
                    resultPath |-> "bookingError"] >>,
      next |-> "ConfirmBooking" ]

refundPayment ==
    [ id |-> "RefundPayment", kind |-> "lambda", update |-> NoUpdate,
      parameters |-> {},
      timeout |-> 0, resultPath |-> "$",
      retry |-> << >>,
      catch |-> << >>,
      next |-> "CancelBooking" ]

\* ConfirmBooking without its resultPath: the result replaces the input.
confirmBooking_NoResultPath ==
    [ id |-> "ConfirmBooking", kind |-> "lambda", update |-> NoUpdate,
      parameters |-> {},
      timeout |-> 0, resultPath |-> "$",
      retry |-> << [errors |-> {"BookingConfirmationException"},
                    interval |-> 1, backoffRate |-> 2, maxAttempts |-> 2] >>,
      catch |-> << [errors |-> {"States.ALL"}, next |-> "RefundPayment",
                    resultPath |-> "bookingError"] >>,
      next |-> "Notify Booking Confirmed" ]

confirmBooking ==
    [ id |-> "ConfirmBooking", kind |-> "lambda", update |-> NoUpdate,
      parameters |-> {},
      timeout |-> 0, resultPath |-> "bookingReference",
      retry |-> << [errors |-> {"BookingConfirmationException"},
                    interval |-> 1, backoffRate |-> 2, maxAttempts |-> 2] >>,
      catch |-> << [errors |-> {"States.ALL"}, next |-> "RefundPayment",
                    resultPath |-> "bookingError"] >>,
      next |-> "Notify Booking Confirmed" ]

notifyBookingConfirmed ==
    [ id |-> "Notify Booking Confirmed", kind |-> "lambda", update |-> NoUpdate,
      parameters |-> {},
      timeout |-> 0, resultPath |-> "notificationId",
      retry |-> << [errors |-> {"BookingNotificationException"},
                    interval |-> 1, backoffRate |-> 2, maxAttempts |-> 2] >>,
      catch |-> << >>,
      next |-> "BookingConfirmed" ]

bookingFailed == "BookingFailed"

bookingConfirmed == "BookingConfirmed"

Tasks ==
    { notifyBookingFailed, releaseFlightTask, cancelBooking, reserveFlightTask,
      reserveBooking, collectPayment, refundPayment, confirmBooking,
      notifyBookingConfirmed }

TaskIds == { t.id : t \in Tasks }

StateIds == TaskIds \cup { bookingFailed, bookingConfirmed }

Def(s) == CHOOSE t \in Tasks : t.id = s

\* The chain starts at the reserve task.
chain == reserveFlightTask.id

CompensationSteps ==
    { refundPayment.id, cancelBooking.id, releaseFlightTask.id,
      notifyBookingFailed.id }

\* ------------------------------------------------------------ the runtime
VARIABLES
    seats,      \* seatAllocation of the flight item
    seats0,     \* seatAllocation before any execution
    status,     \* status[e]: NOT_STARTED, RUNNING, SUCCEEDED, FAILED, TIMED_OUT
    state,      \* state[e]: the state the execution is in
    retries,    \* retries[e]: retries made so far of the current state
    elapsed,    \* elapsed[e]: seconds since the execution started
    ctx,        \* ctx[e]: the keys of the state input ("$")
    entered,    \* entered[e]: the states entered, in order
    succeeded,  \* succeeded[e]: the task states that returned a result
    failed,     \* failed[e]: << state, error >> of every state left through an error
    requests,   \* processBooking mutations not yet received
    response,   \* response[e]: what the resolver answered for the request
    faults      \* calls that may still fail or stay unanswered

vars == << seats, seats0, status, state, retries, elapsed, ctx, entered,
           succeeded, failed, requests, response, faults >>

\* The payload of the StartExecution request.
WorkflowInput ==
    { "outboundFlightId", "customerId", "chargeId", "bookingTable",
      "flightTable", "name", "createdAt" }

\* The result of dynamodb:updateItem carries nothing of the state input.
DynamoDBResponse == { "SdkHttpMetadata", "SdkResponseMetadata" }

\* The JSON a Lambda returns is its own: it carries the booking request's
\* fields or it does not.
LambdaPayloads ==
    { {"Payload"}, WorkflowInput \cup {"Payload"} }

\* What one call of the task's resource may answer.
DynamoDBUpdateItem(t, seatAllocation) ==
    ( IF t.update.conditional /\ ~(seatAllocation > 0)
        THEN {"ConditionalCheckFailedException"}
        ELSE {"ok"} )
    \cup {"ThrottlingException"}

InvokeLambda(t) ==
    {"ok", "Lambda.Unknown"} \cup UNION { t.retry[i].errors : i \in DOMAIN t.retry }

Responses(t, seatAllocation) ==
    IF t.kind = "dynamodb" THEN DynamoDBUpdateItem(t, seatAllocation)
                           ELSE InvokeLambda(t)

RECURSIVE Pow(_, _)
Pow(b, n) == IF n = 0 THEN 1 ELSE b * Pow(b, n - 1)

Matches(errors, err) == err \in errors \/ "States.ALL" \in errors

\* Index of the first retrier / catcher that names the error, 0 when none.
FirstMatch(rules, err) ==
    IF \E i \in DOMAIN rules : Matches(rules[i].errors, err)
      THEN CHOOSE i \in DOMAIN rules :
               /\ Matches(rules[i].errors, err)
               /\ \A j \in DOMAIN rules : Matches(rules[j].errors, err) => i <= j
      ELSE 0

\* Only one retrier of a state has maxAttempts > 0, so one counter per
\* execution stands for the per-retrier counters.
ShouldRetry(t, err, n) ==
    LET i == FirstMatch(t.retry, err)
    IN  i > 0 /\ n < t.retry[i].maxAttempts

NextDelay(t, err, n) ==
    LET r == t.retry[FirstMatch(t.retry, err)]
    IN  r.interval * Pow(r.backoffRate, n)

ApplyResultPath(input, path, output) ==
    IF path = "$" THEN output ELSE input \cup {path}

\* One call of duration d answering r, as the task state sees it.
Attempt(t, d, r) ==
    IF t.timeout > 0 /\ d > t.timeout
      THEN [took |-> t.timeout, res |-> "States.Timeout"]
      ELSE [took |-> d, res |-> r]

TaskOutput(t) ==
    IF t.kind = "dynamodb" THEN {DynamoDBResponse}
    ELSE IF t.resultPath = "$" THEN LambdaPayloads
    ELSE {{"Payload"}}

\* A call fails or is not answered.  A rejected condition is the table's
\* answer to the update as it is written, so it is always possible.
Fault(res) ==
    IF res = "ConditionalCheckFailedException"
      THEN UNCHANGED faults
      ELSE faults > 0 /\ faults' = faults - 1

\* The state machine built without its timeout.
WithinTimeout_NoLimit(t) == TRUE

\* The state machine's timeout has not passed at second t of the execution.
WithinTimeout(t) == t <= GlobalTimeout

\* BookingFailed built as a state that does not end the execution.
StatusOn_FailNotTerminal(s) ==
    IF s = bookingConfirmed THEN "SUCCEEDED" ELSE "RUNNING"

\* BookingFailed built as a Succeed state.
StatusOn_FailSucceeds(s) ==
    IF s \in {bookingConfirmed, bookingFailed} THEN "SUCCEEDED" ELSE "RUNNING"

StatusOn(s) ==
    IF s = bookingConfirmed THEN "SUCCEEDED"
    ELSE IF s = bookingFailed THEN "FAILED"
    ELSE "RUNNING"

InitFlight ==
    /\ seats0 \in 0..MaxSeats
    /\ seats = seats0
    /\ status = [e \in Execs |-> "NOT_STARTED"]
    /\ state = [e \in Execs |-> chain]
    /\ retries = [e \in Execs |-> 0]
    /\ elapsed = [e \in Execs |-> 0]
    /\ ctx = [e \in Execs |-> {}]
    /\ entered = [e \in Execs |-> << >>]
    /\ succeeded = [e \in Execs |-> {}]
    /\ failed = [e \in Execs |-> {}]
    /\ response = [e \in Execs |-> "none"]

\* One booking request.
Init ==
    /\ InitFlight
    /\ requests = 1
    /\ faults = MaxFaults

\* As many booking requests as there are executions, for the same flight.
InitConcurrent ==
    /\ InitFlight
    /\ requests = NumExecs
    /\ faults = MaxFaultsConcurrent

\* The resolver posts StartExecution with the payload as input; the response
\* template answers PENDING with the id it generated.
StartExecution(e) ==
    /\ status[e] = "NOT_STARTED"
    /\ response[e] = "none"
    /\ requests > 0
    /\ requests' = requests - 1
    /\ status' = [status EXCEPT ![e] = "RUNNING"]
    /\ ctx' = [ctx EXCEPT ![e] = WorkflowInput]
    /\ entered' = [entered EXCEPT ![e] = << chain >>]
    /\ response' = [response EXCEPT ![e] = "PENDING"]
    /\ UNCHANGED << seats, seats0, state, retries, elapsed, succeeded, failed,
                    faults >>

\* The StartExecution call is refused (throttled, not authorised, ...): no
\* execution exists; the response template does not look at the result.
StartExecutionFailed(e) ==
    /\ status[e] = "NOT_STARTED"
    /\ response[e] = "none"
    /\ requests > 0
    /\ requests' = requests - 1
    /\ response' = [response EXCEPT ![e] = "PENDING"]
    /\ Fault("ThrottlingException")
    /\ UNCHANGED << seats, seats0, status, state, retries, elapsed, ctx, entered,
                    succeeded, failed >>

Ready(e) ==
    /\ status[e] = "RUNNING"
    /\ state[e] \in TaskIds
    /\ Def(state[e]).parameters \subseteq ctx[e]

\* A path of the task's parameters is not in the state input: States.Runtime,
\* which no retrier and no catcher handles.
ParameterPathFailure(e) ==
    /\ status[e] = "RUNNING"
    /\ state[e] \in TaskIds
    /\ ~(Def(state[e]).parameters \subseteq ctx[e])
    /\ status' = [status EXCEPT ![e] = "FAILED"]
    /\ failed' = [failed EXCEPT ![e] = @ \cup {<< state[e], "States.Runtime" >>}]
    /\ UNCHANGED << seats, seats0, state, retries, elapsed, ctx, entered,
                    succeeded, requests, response, faults >>

\* The call answers in time: the update is applied, the result is placed at
\* resultPath and the execution enters the next state.
TaskSucceeded(e, D) ==
    /\ Ready(e)
    /\ LET t == Def(state[e]) IN
       \E d \in D, r \in Responses(t, seats), out \in TaskOutput(t) :
         LET a == Attempt(t, d, r) IN
         /\ a.res = "ok"
         /\ WithinTimeout(elapsed[e] + a.took)
         /\ seats' = seats + t.update.delta
         /\ elapsed' = [elapsed EXCEPT ![e] = @ + a.took]
         /\ ctx' = [ctx EXCEPT ![e] = ApplyResultPath(@, t.resultPath, out)]
         /\ succeeded' = [succeeded EXCEPT ![e] = @ \cup {t.id}]
         /\ state' = [state EXCEPT ![e] = t.next]
         /\ entered' = [entered EXCEPT ![e] = Append(@, t.next)]
         /\ status' = [status EXCEPT ![e] = StatusOn(t.next)]
         /\ retries' = [retries EXCEPT ![e] = 0]
         /\ UNCHANGED << seats0, failed, requests, response, faults >>

\* The call fails with an error a retrier names, attempts are left: wait the
\* backoff interval and stay in the state.
TaskRetried(e, D) ==
    /\ Ready(e)
    /\ LET t == Def(state[e]) IN
       \E d \in D, r \in Responses(t, seats) :
         LET a == Attempt(t, d, r) IN
         /\ a.res # "ok"
         /\ ShouldRetry(t, a.res, retries[e])
         /\ WithinTimeout(elapsed[e] + a.took + NextDelay(t, a.res, retries[e]))
         /\ elapsed' = [elapsed EXCEPT ![e] =
                            @ + a.took + NextDelay(t, a.res, retries[e])]
         /\ retries' = [retries EXCEPT ![e] = @ + 1]
         /\ Fault(a.res)
         /\ UNCHANGED << seats, seats0, status, state, ctx, entered, succeeded,
                         failed, requests, response >>

\* The call fails, no retry is left, a catcher names the error: the error is
\* placed at the catcher's resultPath and the execution enters its target.
TaskCaught(e, D) ==
    /\ Ready(e)
    /\ LET t == Def(state[e]) IN
       \E d \in D, r \in Responses(t, seats) :
         LET a == Attempt(t, d, r)
             c == FirstMatch(t.catch, a.res) IN
         /\ a.res # "ok"
         /\ ~ShouldRetry(t, a.res, retries[e])
         /\ c > 0
         /\ WithinTimeout(elapsed[e] + a.took)
         /\ elapsed' = [elapsed EXCEPT ![e] = @ + a.took]
         /\ ctx' = [ctx EXCEPT ![e] =
                        ApplyResultPath(@, t.catch[c].resultPath, {"Error", "Cause"})]
         /\ failed' = [failed EXCEPT ![e] = @ \cup {<< t.id, a.res >>}]
         /\ state' = [state EXCEPT ![e] = t.catch[c].next]
         /\ entered' = [entered EXCEPT ![e] = Append(@, t.catch[c].next)]
         /\ status' = [status EXCEPT ![e] = StatusOn(t.catch[c].next)]
         /\ retries' = [retries EXCEPT ![e] = 0]
         /\ Fault(a.res)
         /\ UNCHANGED << seats, seats0, succeeded, requests, response >>

\* The call fails, no retry is left and no catcher names the error: the
\* execution fails in this state.
TaskFailed(e, D) ==
    /\ Ready(e)
    /\ LET t == Def(state[e]) IN
       \E d \in D, r \in Responses(t, seats) :
         LET a == Attempt(t, d, r) IN
         /\ a.res # "ok"
         /\ ~ShouldRetry(t, a.res, retries[e])
         /\ FirstMatch(t.catch, a.res) = 0
         /\ WithinTimeout(elapsed[e] + a.took)
         /\ elapsed' = [elapsed EXCEPT ![e] = @ + a.took]
         /\ failed' = [failed EXCEPT ![e] = @ \cup {<< t.id, a.res >>}]
         /\ status' = [status EXCEPT ![e] = "FAILED"]
         /\ Fault(a.res)
         /\ UNCHANGED << seats, seats0, state, retries, ctx, entered, succeeded,
                         requests, response >>

\* The state machine's timeout passes while a call or a retry wait is under
\* way: the execution is stopped where it is.
ExecutionTimedOut(e, D) ==
    /\ Ready(e)
    /\ LET t == Def(state[e]) IN
       \E d \in D, r \in Responses(t, seats) :
         LET a == Attempt(t, d, r) IN
         \/ ~WithinTimeout(elapsed[e] + a.took)
         \/ /\ a.res # "ok"
            /\ ShouldRetry(t, a.res, retries[e])
            /\ ~WithinTimeout(elapsed[e] + a.took + NextDelay(t, a.res, retries[e]))
    /\ Fault("States.Timeout")
    /\ status' = [status EXCEPT ![e] = "TIMED_OUT"]
    /\ elapsed' = [elapsed EXCEPT ![e] = Never]
    /\ UNCHANGED << seats, seats0, state, retries, ctx, entered, succeeded,
                    failed, requests, response >>

\* One step of execution e, calls taking a time of D.
Step(e, D) ==
    \/ ParameterPathFailure(e)
    \/ TaskSucceeded(e, D)
    \/ TaskRetried(e, D)
    \/ TaskCaught(e, D)
    \/ TaskFailed(e, D)
    \/ ExecutionTimedOut(e, D)

Next ==
    \E e \in Execs :
        \/ StartExecution(e)
        \/ StartExecutionFailed(e)
        \/ ParameterPathFailure(e)
        \/ TaskSucceeded(e, Durations)
        \/ TaskRetried(e, Durations)
        \/ TaskCaught(e, Durations)
        \/ TaskFailed(e, Durations)
        \/ ExecutionTimedOut(e, Durations)

Spec == Init /\ [][Next]_vars

\* The service runs every started execution on: a step that stays possible
\* is taken.
SpecLive == Spec /\ \A e \in Execs : WF_vars(Step(e, Durations))

\* Concurrent executions: a call answers at once or not at all.
NextConcurrent ==
    \E e \in Execs :
        \/ StartExecution(e)
        \/ StartExecutionFailed(e)
        \/ ParameterPathFailure(e)
        \/ TaskSucceeded(e, {0, Never})
        \/ TaskRetried(e, {0, Never})
        \/ TaskCaught(e, {0, Never})
        \/ TaskFailed(e, {0, Never})
        \/ ExecutionTimedOut(e, {0, Never})

SpecConcurrent == InitConcurrent /\ [][NextConcurrent]_vars

TypeOK ==
    /\ seats \in Int
    /\ requests \in 0..NumExecs
    /\ response \in [Execs -> {"none", "PENDING"}]
    /\ \A e \in Execs :
         /\ status[e] \in {"NOT_STARTED", "RUNNING", "SUCCEEDED", "FAILED", "TIMED_OUT"}
         /\ state[e] \in StateIds
         /\ retries[e] \in 0..2
         /\ elapsed[e] \in 0..Never

\* ------------------------------------------------------------- vocabulary
Terminal(e) == status[e] \in {"SUCCEEDED", "FAILED", "TIMED_OUT"}

\* The Failed outcome: the execution ended and did not succeed.
Failed(e) == status[e] \in {"FAILED", "TIMED_OUT"}

\* No other execution has touched the flight.
Alone(e) == \A f \in Execs \ {e} : status[f] = "NOT_STARTED"

Positions(e, s) == { i \in DOMAIN entered[e] : entered[e][i] = s }

Ran(e, s) == Positions(e, s) # {}

Before(e, s1, s2) ==
    \A i \in Positions(e, s1), j \in Positions(e, s2) : i < j

FailedStates(e) == { p[1] : p \in failed[e] }

\* The activities that reported an error (States.Runtime is the state
\* machine's own error, no activity was called).
ActivityFailures(e) == { p \in failed[e] : p[2] # "States.Runtime" }

\* ----------------------------------------------------------------- claims

\* C1: when an execution reaches BookingConfirmed and no other execution
\* touched the flight, the seat count is the seat count at the start minus
\* one.
C1_SuccessTakesOneSeat ==
    \A e \in Execs :
        (status[e] = "SUCCEEDED" /\ Alone(e)) => seats = seats0 - 1

\* C2: ReserveInventory succeeds only when the seat count is > 0 and then
\* takes exactly one seat (with no other execution, the count before the
\* reservation is the initial one), and the seat count is never negative.
C2_ReserveIsConditional ==
    /\ seats >= 0
    /\ \A e \in Execs :
         (Alone(e) /\ state[e] = reserveBooking.id /\ status[e] = "RUNNING")
             => (seats0 > 0 /\ seats = seats0 - 1)

\* C3: when ReserveInventory succeeded and a later step failed, the finished
\* execution has run ReleaseInventory exactly once and, with no other
\* execution, the seat count is the one before the reservation.
C3_ReleaseRestoresSeats ==
    \A e \in Execs :
        (status[e] = "FAILED" /\ reserveFlightTask.id \in succeeded[e] /\ Alone(e))
            => /\ Cardinality(Positions(e, releaseFlightTask.id)) = 1
               /\ seats = seats0

\* C4: when CollectPayment succeeded and ConfirmBooking or NotifyConfirmed
\* failed, RefundPayment has executed, and before CancelBooking.
C4_RefundBeforeCancel ==
    \A e \in Execs :
        ( /\ status[e] = "FAILED"
          /\ collectPayment.id \in succeeded[e]
          /\ FailedStates(e) \cap {confirmBooking.id, notifyBookingConfirmed.id} # {} )
            => /\ Ran(e, refundPayment.id)
               /\ Before(e, refundPayment.id, cancelBooking.id)

\* C5: with one seat and all executions of the flight run concurrently, every
\* activity but ReserveInventory succeeding, exactly one execution is
\* confirmed, the others fail on a rejected ReserveInventory, and the final
\* seat count is 0.
C5_OneSeatOneWinner ==
    ( /\ seats0 = 1
      /\ \A e \in Execs : status[e] \in {"SUCCEEDED", "FAILED"}
      /\ \A e \in Execs : FailedStates(e) \subseteq {reserveFlightTask.id} )
        => /\ Cardinality({ e \in Execs : status[e] = "SUCCEEDED" }) = 1
           /\ \A e \in Execs :
                status[e] = "FAILED" =>
                    failed[e] = {<< reserveFlightTask.id, "ConditionalCheckFailedException" >>}
           /\ seats = 0

\* C6: when an execution has reached Failed, every forward step that
\* succeeded has had its compensation run: ReleaseInventory for
\* ReserveInventory, CancelBooking for ReserveBooking, RefundPayment for
\* CollectPayment.
C6_FailedIsCompensated ==
    \A e \in Execs :
        status[e] = "FAILED" =>
            /\ reserveFlightTask.id \in succeeded[e] => Ran(e, releaseFlightTask.id)
            /\ reserveBooking.id \in succeeded[e] => Ran(e, cancelBooking.id)
            /\ collectPayment.id \in succeeded[e] => Ran(e, refundPayment.id)

\* The step a failed step hands over to, as the design states it.
CompensationTarget(s) ==
    CASE s = reserveFlightTask.id -> notifyBookingFailed.id
      [] s = reserveBooking.id -> cancelBooking.id
      [] s = collectPayment.id -> cancelBooking.id
      [] s = confirmBooking.id -> refundPayment.id
      [] s = refundPayment.id -> cancelBooking.id
      [] s = cancelBooking.id -> releaseFlightTask.id
      [] s = releaseFlightTask.id -> notifyBookingFailed.id
      [] s = notifyBookingConfirmed.id -> bookingConfirmed
      [] s = notifyBookingFailed.id -> bookingFailed

MaxAttempts(s) ==
    CASE s \in { reserveFlightTask.id, releaseFlightTask.id, reserveBooking.id,
                 cancelBooking.id, confirmBooking.id, notifyBookingConfirmed.id,
                 notifyBookingFailed.id } -> 2
      [] OTHER -> 0

\* C7: the retries of a step never exceed its declared maximum, and a step
\* that an activity error ended (retries used up, or error not retryable) is
\* followed by its compensation target.
C7_RetriesBoundedThenCompensation ==
    \A e \in Execs :
        /\ status[e] # "NOT_STARTED" => retries[e] <= MaxAttempts(state[e])
        /\ \A i \in DOMAIN entered[e] :
             entered[e][i] \in { p[1] : p \in ActivityFailures(e) } =>
                \/ /\ i < Len(entered[e])
                   /\ entered[e][i + 1] = CompensationTarget(entered[e][i])
                \/ /\ CompensationTarget(entered[e][i]) = bookingFailed
                   /\ status[e] = "FAILED"

\* C8: when ReserveInventory, ReserveBooking and CollectPayment succeed,
\* ConfirmBooking fails with its booking-confirmation error on every attempt
\* and no other activity fails, the finished execution has run RefundPayment,
\* CancelBooking, ReleaseInventory and NotifyFailure in that order, has ended
\* in Failed, and the seat count is the one before the execution.
C8_ConfirmFailureRollsBack ==
    \A e \in Execs :
        ( /\ Alone(e)
          /\ status[e] \in {"SUCCEEDED", "FAILED"}
          /\ ActivityFailures(e) =
                {<< confirmBooking.id, "BookingConfirmationException" >>} )
            => /\ entered[e] =
                    << reserveFlightTask.id, reserveBooking.id, collectPayment.id,
                       confirmBooking.id, refundPayment.id, cancelBooking.id,
                       releaseFlightTask.id, notifyBookingFailed.id, bookingFailed >>
               /\ status[e] = "FAILED"
               /\ seats = seats0

\* C9: an execution that has reached BookingConfirmed has executed none of
\* RefundPayment, CancelBooking, ReleaseInventory, NotifyFailure.
C9_NoCompensationOnSuccess ==
    \A e \in Execs :
        status[e] = "SUCCEEDED" =>
            \A s \in CompensationSteps : ~Ran(e, s)

C9_Witness ==
    \E e \in Execs : status[e] = "SUCCEEDED" /\ state[e] = bookingConfirmed

\* C10: an execution whose elapsed time passes the state machine's timeout
\* has ended in Failed (timed out): it has not succeeded and is not running,
\* whether or not an activity reported an error.
C10_TimeoutEndsFailed ==
    \A e \in Execs :
        elapsed[e] > GlobalTimeout => (status[e] = "TIMED_OUT" /\ Failed(e))

C10_Witness ==
    \E e \in Execs :
        /\ elapsed[e] > GlobalTimeout
        /\ failed[e] = {}
        /\ status[e] = "TIMED_OUT"

C12_NotifyConfirmedBestEffort ==
    \A e \in Execs :
        ( /\ notifyBookingConfirmed.id \in { p[1] : p \in ActivityFailures(e) }
          /\ status[e] # "TIMED_OUT" )
            => /\ status[e] \in {"RUNNING", "SUCCEEDED"}
               /\ \A s \in CompensationSteps : ~Ran(e, s)

\* C13: a request that was answered PENDING has its execution started; no
\* request whose StartExecution call failed is answered PENDING.
C13_PendingMeansStarted ==
    \A e \in Execs :
        response[e] = "PENDING" => status[e] # "NOT_STARTED"

\* The executions that hold a seat: reserved and not released.
Holding == { e \in Execs : /\ reserveFlightTask.id \in succeeded[e]
                           /\ releaseFlightTask.id \notin succeeded[e] }

\* C14: at no time do more executions hold a seat (reserved, not released)
\* than the flight had seats at the start.
C14_NoOverbooking == Cardinality(Holding) <= seats0

\* C15: an execution that entered CancelBooking and has ended on a step
\* failure has run ReleaseInventory after it, whether CancelBooking succeeded
\* or failed.
C15_CancelLeadsToRelease ==
    \A e \in Execs :
        (status[e] = "FAILED" /\ Ran(e, cancelBooking.id))
            => /\ Ran(e, releaseFlightTask.id)
               /\ Before(e, cancelBooking.id, releaseFlightTask.id)

\* C16 (as claimed): a compensation step has run only if its forward step
\* succeeded: ReleaseInventory after ReserveInventory, CancelBooking after
\* ReserveBooking, RefundPayment after CollectPayment.
C16_CompensationAfterEffect ==
    \A e \in Execs :
        /\ Ran(e, releaseFlightTask.id) => reserveFlightTask.id \in succeeded[e]
        /\ Ran(e, cancelBooking.id) => reserveBooking.id \in succeeded[e]
        /\ Ran(e, refundPayment.id) => collectPayment.id \in succeeded[e]

\* C16 (amended): ReleaseInventory has run only if ReserveInventory
\* succeeded, RefundPayment only if CollectPayment succeeded, and
\* CancelBooking only if ReserveBooking was attempted before it: it succeeded
\* or it failed.
C16_CompensationAfterAttempt ==
    \A e \in Execs :
        /\ Ran(e, releaseFlightTask.id) => reserveFlightTask.id \in succeeded[e]
        /\ Ran(e, refundPayment.id) => collectPayment.id \in succeeded[e]
        /\ Ran(e, cancelBooking.id) =>
              /\ reserveFlightTask.id \in succeeded[e]
              /\ Ran(e, reserveBooking.id)
              /\ Before(e, reserveBooking.id, cancelBooking.id)
              /\ reserveBooking.id \in succeeded[e] \cup FailedStates(e)

C16_Witness ==
    \E e \in Execs :
        /\ Ran(e, cancelBooking.id)
        /\ reserveBooking.id \in FailedStates(e)
        /\ releaseFlightTask.id \in succeeded[e]

\* C17: when the state machine's timeout has stopped an execution, the
\* compensation of every forward step that had succeeded has still been
\* attempted.
C17_TimeoutStillCompensates ==
    \A e \in Execs :
        status[e] = "TIMED_OUT" =>
            /\ reserveFlightTask.id \in succeeded[e] => Ran(e, releaseFlightTask.id)
            /\ reserveBooking.id \in succeeded[e] => Ran(e, cancelBooking.id)
            /\ collectPayment.id \in succeeded[e] =>
                  (Ran(e, refundPayment.id) \/ Ran(e, notifyBookingConfirmed.id))

\* C18: when ReserveInventory has failed, NotifyFailure is the next state,
\* none of ReleaseInventory, CancelBooking, RefundPayment has run, the seat
\* count is as the execution found it, and the execution ends in Failed.
C18_ReserveFailureGoesToNotify ==
    \A e \in Execs :
        reserveFlightTask.id \in FailedStates(e) =>
            /\ Len(entered[e]) >= 2
            /\ entered[e][2] = notifyBookingFailed.id
            /\ \A i \in DOMAIN entered[e] :
                 entered[e][i] \in { reserveFlightTask.id, notifyBookingFailed.id,
                                     bookingFailed }
            /\ succeeded[e] \subseteq {notifyBookingFailed.id}
            /\ Alone(e) => seats = seats0
            /\ Terminal(e) => Failed(e)

C18_Witness ==
    \E e \in Execs :
        /\ << reserveFlightTask.id, "ThrottlingException" >> \in failed[e]
        /\ state[e] = bookingFailed
        /\ status[e] = "FAILED"

\* C19: when CollectPayment has failed and no other activity has, the
\* finished execution has run CancelBooking, ReleaseInventory and
\* NotifyFailure in that order after one attempt of CollectPayment, has ended
\* in Failed, and RefundPayment has not run.
C19_PaymentFailureRollsBack ==
    \A e \in Execs :
        ( /\ status[e] \in {"SUCCEEDED", "FAILED"}
          /\ ActivityFailures(e) # {}
          /\ \A p \in ActivityFailures(e) : p[1] = collectPayment.id )
            => /\ entered[e] =
                    << reserveFlightTask.id, reserveBooking.id, collectPayment.id,
                       cancelBooking.id, releaseFlightTask.id,
                       notifyBookingFailed.id, bookingFailed >>
               /\ status[e] = "FAILED"

\* C20: a finished execution that entered ReleaseInventory has gone on to
\* NotifyFailure, whether the release succeeded or failed, and has ended in
\* Failed.
C20_ReleaseLeadsToNotify ==
    \A e \in Execs :
        (Ran(e, releaseFlightTask.id) /\ status[e] \in {"SUCCEEDED", "FAILED"})
            => /\ Ran(e, notifyBookingFailed.id)
               /\ Before(e, releaseFlightTask.id, notifyBookingFailed.id)
               /\ status[e] = "FAILED"

\* C21: the context is append-only: a step of a running execution keeps
\* every key the context held before the step and only adds to it.
C21_ContextAppendOnly ==
    [][ \A e \in Execs :
          status[e] = "RUNNING" => ctx[e] \subseteq ctx'[e] ]_vars

\* The states a state leads to: its next and its catchers' targets.
Successors(s) ==
    IF s \in TaskIds
      THEN {Def(s).next} \cup { Def(s).catch[i].next : i \in DOMAIN Def(s).catch }
      ELSE {}

RECURSIVE Closure(_)
Closure(S) ==
    LET T == S \cup UNION { Successors(s) : s \in S }
    IN  IF T = S THEN S ELSE Closure(T)

\* The states reachable from s in one transition or more.
ReachableFrom(s) == Closure(Successors(s))

\* C22: the transition graph has no cycle and its only ends are
\* BookingConfirmed and BookingFailed; in an execution no state is entered
\* twice and each state entered is a successor of the one before.
C22_NoStateReentered ==
    /\ \A s \in StateIds :
          /\ s \notin ReachableFrom(s)
          /\ Successors(s) \subseteq StateIds
          /\ Successors(s) = {} <=> s \in {bookingFailed, bookingConfirmed}
    /\ \A e \in Execs :
          /\ \A i, j \in DOMAIN entered[e] :
                i # j => entered[e][i] # entered[e][j]
          /\ \A i \in DOMAIN entered[e] :
                i > 1 => entered[e][i] \in Successors(entered[e][i - 1])

C22_Witness ==
    \E e \in Execs :
        entered[e] = << reserveFlightTask.id, reserveBooking.id, collectPayment.id,
                        confirmBooking.id, refundPayment.id, cancelBooking.id,
                        releaseFlightTask.id, notifyBookingFailed.id,
                        bookingFailed >>

C24_SuccessNeedsAllForwardSteps ==
    \A e \in Execs :
        status[e] = "SUCCEEDED" =>
            /\ { reserveFlightTask.id, reserveBooking.id, collectPayment.id,
                 confirmBooking.id } \subseteq succeeded[e]
            /\ Len(entered[e]) >= 4
            /\ entered[e][1] = reserveFlightTask.id
            /\ entered[e][2] = reserveBooking.id
            /\ entered[e][3] = collectPayment.id
            /\ entered[e][4] = confirmBooking.id
            /\ state[e] = bookingConfirmed
            /\ "bookingReference" \in ctx[e]

C24_Witness ==
    \E e \in Execs :
        /\ status[e] = "SUCCEEDED"
        /\ confirmBooking.id \in succeeded[e]
        /\ "bookingReference" \in ctx[e]

\* The executions that ended in Success.
Confirmed == { e \in Execs : status[e] = "SUCCEEDED" }

\* C25: when no execution is running, the seat count is the initial count
\* minus the number of executions that ended in Success.
C25_SeatConservation ==
    (\A e \in Execs : status[e] # "RUNNING")
        => seats = seats0 - Cardinality(Confirmed)

\* C26: whenever an execution is about to run a task, the fields the
\* task's Parameters read are in the context.
C26_InputFieldsPresent ==
    \A e \in Execs :
        (status[e] = "RUNNING" /\ state[e] \in TaskIds)
            => Def(state[e]).parameters \subseteq ctx[e]

====
